---------------------------- MODULE Spec2Model ----------------------------
(***************************************************************************)
(* State-machine model of the 3D solar system explorer.                    *)
(*                                                                         *)
(* The repository holds three programs, each a browser page script:        *)
(*   "script"  script.js  (src/unnamed/part_000 lines 1-113)               *)
(*   "app"     app.js     (src/unnamed/part_000 lines 115-281)             *)
(*   "main"    main.js    (src/main.js)                                    *)
(* A behaviour of the model is one session of one of them; the variable    *)
(* variant says which.                                                     *)
(*                                                                         *)
(* JavaScript numbers are modelled in fixed point:                         *)
(*   angles            integer micro-radians      (1 rad  = 10^6)          *)
(*   input vector      integer thousandths        (1.0    = 10^3)          *)
(*   sines and cosines integer ten-thousandths    (1.0    = 10^4)          *)
(*   positions         integer thousandths        (1 unit = 10^3)          *)
(*   timestamps        integer milliseconds                                *)
(*   speeds            integer micro-radians per frame                     *)
(* Every product stays below 2^31.                                         *)
(***************************************************************************)
EXTENDS Integers, Sequences, FiniteSets

(***************************************************************************)
(* Bounds of the model.                                                    *)
(***************************************************************************)
\* frame updates per session of the joystick variants
MaxFrames == 34
\* frame callbacks per session of main.js
MaxRenders == 5

(***************************************************************************)
(* Fixed-point arithmetic.                                                 *)
(***************************************************************************)
AngleScale == 10^6
VecScale == 10^3
TrigScale == 10^4
PosScale == 10^3

Abs(a) == IF a < 0 THEN -a ELSE a

Min(a, b) == IF a < b THEN a ELSE b

Max(a, b) == IF a > b THEN a ELSE b

\* a / b rounded to the nearest integer, halves upwards (b > 0)
RoundDiv(a, b) == (2 * a + b) \div (2 * b)

\* Math.PI in micro-radians
PI == 3141593

\* An angle folded into (-PI, PI]
WrapAngle(a) ==
  LET m == a % (2 * PI)
  IN  IF m > PI THEN m - 2 * PI ELSE m

\* sin of x, x in units of 10^-4 rad with |x| <= PI/2, by its Taylor series
SinSeries(x) ==
  LET u  == RoundDiv(x * x, TrigScale)
      t9 == TrigScale - RoundDiv(u, 72)
      t7 == TrigScale - RoundDiv(u * t9, 42 * TrigScale)
      t5 == TrigScale - RoundDiv(u * t7, 20 * TrigScale)
      t3 == TrigScale - RoundDiv(u * t5, 6 * TrigScale)
  IN  RoundDiv(x * t3, TrigScale)

\* cos of x, x in units of 10^-4 rad with |x| <= PI/2, by its Taylor series
CosSeries(x) ==
  LET u   == RoundDiv(x * x, TrigScale)
      c10 == TrigScale - RoundDiv(u, 90)
      c8  == TrigScale - RoundDiv(u * c10, 56 * TrigScale)
      c6  == TrigScale - RoundDiv(u * c8, 30 * TrigScale)
      c4  == TrigScale - RoundDiv(u * c6, 12 * TrigScale)
  IN  TrigScale - RoundDiv(u * c4, 2 * TrigScale)

\* Math.sin of an angle in micro-radians, in ten-thousandths
Sin(a) ==
  LET w == WrapAngle(a)
      f == IF w > PI \div 2 THEN PI - w
           ELSE IF w < -(PI \div 2) THEN -PI - w
           ELSE w
  IN  SinSeries(RoundDiv(f, 100))

\* Math.cos of an angle in micro-radians, in ten-thousandths
Cos(a) ==
  LET w == WrapAngle(a)
  IN  IF w > PI \div 2 THEN -CosSeries(RoundDiv(PI - w, 100))
      ELSE IF w < -(PI \div 2) THEN -CosSeries(RoundDiv(-PI - w, 100))
      ELSE CosSeries(RoundDiv(w, 100))


\* v clamped into [lo, hi]: Math.max(lo, Math.min(hi, v))
Clamp(lo, hi, v) == Max(lo, Min(hi, v))

\* A point at distance R (whole units) from the origin, in thousandths:
\* (R cos(polar) sin(azimuth), R sin(polar), R cos(polar) cos(azimuth))
Spherical(R, polar, azimuth) ==
  << RoundDiv(R * PosScale * RoundDiv(Cos(polar) * Sin(azimuth), TrigScale), TrigScale),
     RoundDiv(R * PosScale * Sin(polar), TrigScale),
     RoundDiv(R * PosScale * RoundDiv(Cos(polar) * Cos(azimuth), TrigScale), TrigScale) >>

\* The squared length of a vector
Norm2(p) == p[1] * p[1] + p[2] * p[2] + p[3] * p[3]

(***************************************************************************)
(* The environment: the display and the window.                            *)
(***************************************************************************)
\* window.innerWidth x window.innerHeight, in pixels
WindowSizes == { <<800, 600>>, <<1600, 900>> }

\* width / height, in thousandths
AspectOf(w, h) == RoundDiv(w * 1000, h)

\* requestAnimationFrame(callback): one more callback is pending
RequestAnimationFrame(p) == p + 1

(***************************************************************************)
(* script.js                                                               *)
(***************************************************************************)
\* planetsData[i].speed, micro-radians per frame
planetsData ==
  << [radius |-> 4,  speed |-> 20000], [radius |-> 6,  speed |-> 15000],
     [radius |-> 8,  speed |-> 10000], [radius |-> 10, speed |-> 8000],
     [radius |-> 13, speed |-> 6000],  [radius |-> 16, speed |-> 5000],
     [radius |-> 18, speed |-> 4000],  [radius |-> 20, speed |-> 3000] >>

camRadius == 30

\* 0.05 rad per unit of input: micro-radians per thousandth
Sensitivity == 50

\* Math.PI / 2 - 0.1
maxPitch == PI \div 2 - AngleScale \div 10

\* The (angle.radian, distance) payloads of the joystick's move events:
\* radian in micro-radians, distance in pixels
ScriptPayloads ==
  { [radian |-> 0, distance |-> 80],
    [radian |-> PI \div 2, distance |-> 50],
    [radian |-> PI + PI \div 2, distance |-> 50],
    [radian |-> PI + PI \div 2, distance |-> 25] }

\* Math.min(data.distance / 50, 1), in thousandths
ScriptDistance(data) == Min(RoundDiv(data.distance * VecScale, 50), VecScale)

\* Math.cos(rad) * distance, in thousandths
ScriptMoveX(data) == RoundDiv(Cos(data.radian) * ScriptDistance(data), TrigScale)

\* Math.sin(rad) * distance, in thousandths
ScriptMoveY(data) == RoundDiv(Sin(data.radian) * ScriptDistance(data), TrigScale)

\* The vector (moveX, moveY) the move handler computes from each payload
ScriptVector == [data \in ScriptPayloads |-> <<ScriptMoveX(data), ScriptMoveY(data)>>]

\* Mutant of ScriptYaw: the azimuth grows with moveX
ScriptYawReversed(y, mx) == y + mx * Sensitivity

\* yaw -= moveX * 0.05
ScriptYaw(y, mx) == y - mx * Sensitivity

\* Mutant of ScriptPitch: the polar angle is not clamped
ScriptPitchUnclamped(p, my) == p + my * Sensitivity

\* pitch += moveY * 0.05, then clamped to [-maxPitch, maxPitch]
ScriptPitch(p, my) == Clamp(-maxPitch, maxPitch, p + my * Sensitivity)

\* camera.position after the frame
ScriptCameraPosition(y, p) == Spherical(camRadius, p, y)

(***************************************************************************)
(* app.js                                                                  *)
(***************************************************************************)
\* orbitData[i]: radius in whole units, speed in micro-radians per frame
orbitData ==
  << [radius |-> 5,  speed |-> 20000], [radius |-> 7,  speed |-> 15000],
     [radius |-> 9,  speed |-> 13000], [radius |-> 11, speed |-> 11000],
     [radius |-> 15, speed |-> 8000],  [radius |-> 19, speed |-> 6000],
     [radius |-> 23, speed |-> 4000],  [radius |-> 27, speed |-> 3000] >>

cameraDistance == 40

\* Math.PI / 2 - 0.1
maxTheta == PI \div 2 - AngleScale \div 10

\* Math.random() * Math.PI * 2 for the eight planets: the draws of one session
RandomAngles ==
  { << 0, 785398, 1570796, 2356194, 3141593, 3926991, 4712389, 5497787 >>,
    << 6183185, 250000, 4000000, 1234567, 5000000, 100000, 3000000, 2000000 >> }

\* The data.vector payloads of the joystick's move events, in thousandths;
\* the handler takes whatever vector the event carries, and the last one is
\* a vector of length 2
AppPayloads ==
  { [x |-> 1000, y |-> 0], [x |-> 0, y |-> -1000], [x |-> 0, y |-> 2000] }

\* A planet's mesh.position on its orbit: (r cos(angle), 0, r sin(angle))
PlanetPosition(radius, angle) ==
  << RoundDiv(radius * PosScale * Cos(angle), TrigScale), 0,
     RoundDiv(radius * PosScale * Sin(angle), TrigScale) >>

\* phi -= joystickVector.x * 0.05
AppPhi(p, vx) == p - vx * Sensitivity

\* Mutant of AppTheta: the stored angle winds up past the bound
AppThetaUnclamped(t, vy) == t - vy * Sensitivity

\* theta -= joystickVector.y * 0.05, then clamped to [minTheta, maxTheta]
AppTheta(t, vy) == Clamp(-maxTheta, maxTheta, t - vy * Sensitivity)

\* camera.position after updateCamera
AppCameraPosition(p, t) == Spherical(cameraDistance, t, p)

(***************************************************************************)
(* main.js                                                                 *)
(***************************************************************************)
\* The orbitObjects list in the order buildSolarSystem pushes it (a planet,
\* then its satellites): distance in thousandths, speeds in micro-radians
\* per frame, parent the index of the planet whose mesh holds the
\* satellite's pivot (0: the pivot is a child of the scene).
PLANETS ==
  << [name |-> "Mercury", distance |-> 6000,  orbitSpeed |-> 20000, rotationSpeed |-> 4000,  parent |-> 0],
     [name |-> "Venus",   distance |-> 9000,  orbitSpeed |-> 15000, rotationSpeed |-> 2500,  parent |-> 0],
     [name |-> "Earth",   distance |-> 12000, orbitSpeed |-> 12000, rotationSpeed |-> 20000, parent |-> 0],
     [name |-> "Moon",    distance |-> 2200,  orbitSpeed |-> 40000, rotationSpeed |-> 10000, parent |-> 3],
     [name |-> "Mars",    distance |-> 16000, orbitSpeed |-> 10000, rotationSpeed |-> 18000, parent |-> 0],
     [name |-> "Jupiter", distance |-> 24000, orbitSpeed |-> 5000,  rotationSpeed |-> 25000, parent |-> 0],
     [name |-> "Saturn",  distance |-> 32000, orbitSpeed |-> 4000,  rotationSpeed |-> 22000, parent |-> 0],
     [name |-> "Uranus",  distance |-> 38000, orbitSpeed |-> 3500,  rotationSpeed |-> 18000, parent |-> 0],
     [name |-> "Neptune", distance |-> 45000, orbitSpeed |-> 3000,  rotationSpeed |-> 16000, parent |-> 0] >>

Bodies == 1..Len(PLANETS)

\* The timestamp of the first frame callback: milliseconds since the page's
\* time origin
FirstTimestamps == { 16, 100 }

\* Milliseconds between one frame callback and the next
FrameDeltas == { 8, 16, 17 }

\* let previousTime = 0
InitialPreviousTime == 0

\* Mutant of Advance: a fixed increment per frame, whatever the time elapsed
AdvancePerFrame(speed, delta) == speed

\* speed * deltaSeconds * 60 with deltaSeconds = delta * 0.001
Advance(speed, delta) == RoundDiv(speed * delta * 60, 1000)

\* An Object3D rotated by rotation.y = angle applied to a local vector
RotateY(angle, v) ==
  << RoundDiv(v[1] * Cos(angle) + v[3] * Sin(angle), TrigScale),
     v[2],
     RoundDiv(v[3] * Cos(angle) - v[1] * Sin(angle), TrigScale) >>

RECURSIVE PivotWorldAngle(_, _)
\* The rotation about the y axis that the scene graph applies to the
\* children of body i's pivot: the pivot's own rotation on top of the
\* parent planet's pivot and mesh rotations
PivotWorldAngle(i, objs) ==
  IF PLANETS[i].parent = 0
  THEN objs[i].pivot
  ELSE PivotWorldAngle(PLANETS[i].parent, objs) + objs[PLANETS[i].parent].mesh + objs[i].pivot

\* Mutant of MeshWorldPosition: every pivot is a child of the scene
MeshWorldPositionFlat(i, objs) == RotateY(objs[i].pivot, <<PLANETS[i].distance, 0, 0>>)

RECURSIVE MeshWorldPosition(_, _)
\* The world position of body i's mesh: the mesh sits at (distance, 0, 0)
\* in its pivot, and the pivot at the scene's origin or at the parent
\* planet's mesh
MeshWorldPosition(i, objs) ==
  LET origin == IF PLANETS[i].parent = 0
                THEN <<0, 0, 0>>
                ELSE MeshWorldPosition(PLANETS[i].parent, objs)
      arm == RotateY(PivotWorldAngle(i, objs), <<PLANETS[i].distance, 0, 0>>)
  IN  << origin[1] + arm[1], origin[2] + arm[2], origin[3] + arm[3] >>

(***************************************************************************)
(* State.                                                                  *)
(***************************************************************************)
VARIABLES
  variant,        \* which program the session runs
  started,        \* the program's render loop has been started
  pending,        \* frame callbacks requested and not yet called
  frames,         \* frame updates executed so far
  window,         \* <<window.innerWidth, window.innerHeight>>
  cameraAspect,   \* camera.aspect, in thousandths
  rendererSize,   \* the size last given to renderer.setSize
  cameraPosition, \* camera.position, in thousandths
  moveX, moveY,   \* script.js: the joystick vector, in thousandths
  yaw, pitch,     \* script.js: the camera's azimuth and polar angle
  planetPivots,   \* script.js: pivot.rotation.y of each planet
  joystickVector, \* app.js: the joystick vector, in thousandths
  phi, theta,     \* app.js: the camera's azimuth and polar angle
  planets,        \* app.js: userData.angle and position of each planet
  orbitObjects,   \* main.js: pivot.rotation.y and mesh.rotation.y of each body
  previousTime,   \* main.js: the timestamp of the latest frame callback
  frameTimes      \* main.js: the timestamps the display has delivered

vars == << variant, started, pending, frames, window, cameraAspect, rendererSize,
           cameraPosition, moveX, moveY, yaw, pitch, planetPivots,
           joystickVector, phi, theta, planets, orbitObjects, previousTime,
           frameTimes >>

windowVars == << window, cameraAspect, rendererSize >>
scriptVars == << moveX, moveY, yaw, pitch, planetPivots >>
appVars == << joystickVector, phi, theta, planets >>
mainVars == << orbitObjects, previousTime, frameTimes >>

Variants == { "script", "app", "main" }

\* The state once the page's script has run up to its first call of
\* animate() (script.js line 113, app.js line 273), which is the action
\* ScriptStart or AppStart; main.js has then run init() to its end.
Init ==
  /\ variant \in Variants
  /\ started = (variant = "main")
  /\ pending = IF variant = "main" THEN RequestAnimationFrame(0) ELSE 0
  /\ frames = 0
  /\ window \in WindowSizes
  /\ cameraAspect = AspectOf(window[1], window[2])
  /\ rendererSize = window
  /\ cameraPosition = CASE variant = "script" -> <<0, 5 * PosScale, camRadius * PosScale>>
                        [] variant = "app" -> <<0, 0, 0>>
                        [] variant = "main" -> <<0, 20 * PosScale, 80 * PosScale>>
  /\ moveX = 0
  /\ moveY = 0
  /\ yaw = 0
  /\ pitch = 0
  /\ planetPivots = IF variant = "script" THEN [i \in 1..Len(planetsData) |-> 0] ELSE <<>>
  /\ joystickVector = [x |-> 0, y |-> 0]
  /\ phi = 0
  /\ theta = 0
  /\ planets \in IF variant = "app"
                 THEN { [i \in 1..Len(orbitData) |-> [angle |-> r[i], position |-> <<0, 0, 0>>]] :
                        r \in RandomAngles }
                 ELSE { <<>> }
  /\ orbitObjects = IF variant = "main" THEN [i \in Bodies |-> [pivot |-> 0, mesh |-> 0]] ELSE <<>>
  /\ previousTime = InitialPreviousTime
  /\ frameTimes = <<>>

(***************************************************************************)
(* script.js: handlers.                                                    *)
(***************************************************************************)
\* The body of animate(), with p the callbacks pending as it is entered
ScriptAnimateBody(p) ==
  /\ pending' = RequestAnimationFrame(p)
  /\ planetPivots' = [i \in 1..Len(planetsData) |-> planetPivots[i] + planetsData[i].speed]
  /\ yaw' = ScriptYaw(yaw, moveX)
  /\ pitch' = ScriptPitch(pitch, moveY)
  /\ cameraPosition' = ScriptCameraPosition(yaw', pitch')
  /\ frames' = frames + 1
  /\ UNCHANGED << variant, moveX, moveY, windowVars, appVars, mainVars >>

\* animate(): the call that starts the loop
ScriptStart ==
  /\ variant = "script"
  /\ ~started
  /\ started' = TRUE
  /\ ScriptAnimateBody(pending)

\* animate() called by the display as a frame callback, in a session of at
\* most cap frame updates
ScriptAnimateUpTo(cap) ==
  /\ variant = "script"
  /\ started
  /\ pending > 0
  /\ frames < cap
  /\ UNCHANGED started
  /\ ScriptAnimateBody(pending - 1)

ScriptAnimate == ScriptAnimateUpTo(MaxFrames)

\* Mutant of ScriptMove: the payload is added to the stored vector
ScriptMoveAccumulating(data) ==
  /\ variant = "script"
  /\ started
  /\ moveX' = moveX + ScriptVector[data][1]
  /\ moveY' = moveY + ScriptVector[data][2]
  /\ UNCHANGED << variant, started, pending, frames, windowVars, cameraPosition,
                  yaw, pitch, planetPivots, appVars, mainVars >>

\* joystick.on('move', ...)
ScriptMove(data) ==
  /\ variant = "script"
  /\ started
  /\ moveX' = ScriptVector[data][1]
  /\ moveY' = ScriptVector[data][2]
  /\ UNCHANGED << variant, started, pending, frames, windowVars, cameraPosition,
                  yaw, pitch, planetPivots, appVars, mainVars >>

\* joystick.on('end', ...)
ScriptEnd ==
  /\ variant = "script"
  /\ started
  /\ moveX' = 0
  /\ moveY' = 0
  /\ UNCHANGED << variant, started, pending, frames, windowVars, cameraPosition,
                  yaw, pitch, planetPivots, appVars, mainVars >>

\* The resize listener of each program: the window has taken a new size
ResizeBody(size) ==
  /\ started
  /\ window' = size
  /\ cameraAspect' = AspectOf(size[1], size[2])
  /\ rendererSize' = size
  /\ UNCHANGED << variant, started, pending, frames, cameraPosition,
                  scriptVars, appVars, mainVars >>

ScriptResize(size) == variant = "script" /\ ResizeBody(size)

(***************************************************************************)
(* app.js: handlers.                                                       *)
(***************************************************************************)
\* updatePlanets()
UpdatePlanets(ps) ==
  [i \in 1..Len(orbitData) |->
     LET a == ps[i].angle + orbitData[i].speed
     IN  [angle |-> a, position |-> PlanetPosition(orbitData[i].radius, a)]]

\* The body of animate(), with p the callbacks pending as it is entered
AppAnimateBody(p) ==
  /\ pending' = RequestAnimationFrame(p)
  /\ planets' = UpdatePlanets(planets)
  /\ phi' = AppPhi(phi, joystickVector.x)
  /\ theta' = AppTheta(theta, joystickVector.y)
  /\ cameraPosition' = AppCameraPosition(phi', theta')
  /\ frames' = frames + 1
  /\ UNCHANGED << variant, joystickVector, windowVars, scriptVars, mainVars >>

\* animate(): the call that starts the loop
AppStart ==
  /\ variant = "app"
  /\ ~started
  /\ started' = TRUE
  /\ AppAnimateBody(pending)

\* animate() called by the display as a frame callback, in a session of at
\* most cap frame updates
AppAnimateUpTo(cap) ==
  /\ variant = "app"
  /\ started
  /\ pending > 0
  /\ frames < cap
  /\ UNCHANGED started
  /\ AppAnimateBody(pending - 1)

AppAnimate == AppAnimateUpTo(MaxFrames)

\* joystickManager.on('move', ...)
AppMove(data) ==
  /\ variant = "app"
  /\ started
  /\ joystickVector' = [x |-> data.x, y |-> data.y]
  /\ UNCHANGED << variant, started, pending, frames, windowVars, cameraPosition,
                  phi, theta, planets, scriptVars, mainVars >>

\* joystickManager.on('end', ...)
AppEnd ==
  /\ variant = "app"
  /\ started
  /\ joystickVector' = [x |-> 0, y |-> 0]
  /\ UNCHANGED << variant, started, pending, frames, windowVars, cameraPosition,
                  phi, theta, planets, scriptVars, mainVars >>

AppResize(size) == variant = "app" /\ ResizeBody(size)

(***************************************************************************)
(* main.js: handlers.  The camera is moved by OrbitControls from pointer   *)
(* input, which the model does not deliver: controls.update() then leaves  *)
(* the camera where buildSolarSystem put it.                               *)
(***************************************************************************)
\* The timestamps the display may pass to the next frame callback
NextTimestamps ==
  IF frameTimes = <<>> THEN FirstTimestamps ELSE { previousTime + d : d \in FrameDeltas }

\* The orbitObjects.forEach of render, with delta in milliseconds
UpdateOrbits(objs, delta) ==
  [i \in Bodies |->
     [pivot |-> objs[i].pivot + Advance(PLANETS[i].orbitSpeed, delta),
      mesh |-> objs[i].mesh + Advance(PLANETS[i].rotationSpeed, delta)]]

\* render(time) called by the display as a frame callback
MainRender(time) ==
  /\ variant = "main"
  /\ pending > 0
  /\ frames < MaxRenders
  /\ previousTime' = time
  /\ orbitObjects' = UpdateOrbits(orbitObjects, time - previousTime)
  /\ pending' = RequestAnimationFrame(pending - 1)
  /\ frames' = frames + 1
  /\ frameTimes' = Append(frameTimes, time)
  /\ UNCHANGED << variant, started, windowVars, cameraPosition, scriptVars, appVars >>

MainResize(size) == variant = "main" /\ ResizeBody(size)

(***************************************************************************)
(* The specification.                                                      *)
(***************************************************************************)
Next ==
  \/ ScriptStart
  \/ ScriptAnimate
  \/ \E data \in ScriptPayloads : ScriptMove(data)
  \/ ScriptEnd
  \/ \E size \in WindowSizes : ScriptResize(size)
  \/ AppStart
  \/ AppAnimate
  \/ \E data \in AppPayloads : AppMove(data)
  \/ AppEnd
  \/ \E size \in WindowSizes : AppResize(size)
  \/ \E time \in NextTimestamps : MainRender(time)
  \/ \E size \in WindowSizes : MainResize(size)

Spec == Init /\ [][Next]_vars

(***************************************************************************)
(* Properties of the joystick variants.                                    *)
(***************************************************************************)
Joystick == variant \in { "script", "app" }

\* A step that executes one frame update
FrameStep == frames' = frames + 1

\* The stored input vector, whichever variant holds it
InputVector ==
  IF variant = "script" THEN <<moveX, moveY>> ELSE <<joystickVector.x, joystickVector.y>>

\* The stored azimuth and polar angle, whichever variant holds them
Azimuth == IF variant = "script" THEN yaw ELSE phi
Polar == IF variant = "script" THEN pitch ELSE theta

\* The camera's orbit radius, in thousandths
OrbitRadius == (IF variant = "script" THEN 30 ELSE 40) * PosScale

\* C1: in both joystick variants the stored polar angle (pitch, theta) is
\* at most pi/2 - 0.1 in absolute value in every state, whatever move
\* events, end events and frame updates came before.
C1_PolarBound ==
  /\ variant = "script" => Abs(pitch) <= PI \div 2 - 100000
  /\ variant = "app" => Abs(theta) <= PI \div 2 - 100000

\* The clamp has acted: the pitch sits on the bound, which no sum of steps
\* of 0.05 reaches.
C1_Witness == variant = "script" /\ pitch = PI \div 2 - 100000

\* C2: a frame update executed while the input vector is (0, 0) leaves the
\* camera position as it was, from the startup state on.
C2_ZeroInputHoldsStill ==
  [][(Joystick /\ FrameStep /\ InputVector = <<0, 0>>) =>
       cameraPosition' = cameraPosition]_vars

C8_FrameUpdate ==
  [][(Joystick /\ FrameStep) =>
       /\ Azimuth' = Azimuth - 50 * InputVector[1]
       /\ InputVector[2] = 0 => Polar' = Polar
       /\ Abs(Norm2(cameraPosition') \div 1000 - (OrbitRadius * OrbitRadius) \div 1000)
            <= (OrbitRadius * OrbitRadius) \div 1000000]_vars

\* Input (1, 0) has been applied for exactly one frame: the azimuth is
\* -0.05 and the polar angle is unchanged.
C8_Witness ==
  /\ variant = "script" /\ frames = 2
  /\ moveX = VecScale /\ moveY = 0
  /\ yaw = -50000 /\ pitch = 0

\* C10: a move event overwrites the stored vector with its payload alone; a
\* frame update reads the stored vector without changing it and moves the
\* camera angles by that vector; no other step moves the camera angles.
C10_LastWriteWins ==
  [][Joystick =>
       /\ \A data \in ScriptPayloads :
            ScriptMove(data) => InputVector' = <<ScriptMoveX(data), ScriptMoveY(data)>>
       /\ \A data \in AppPayloads :
            AppMove(data) => InputVector' = <<data.x, data.y>>
       /\ FrameStep =>
            /\ InputVector' = InputVector
            /\ Azimuth' = Azimuth - 50 * InputVector[1]
            /\ Polar' = Clamp(-(PI \div 2 - 100000), PI \div 2 - 100000,
                              Polar + (IF variant = "script" THEN 50 ELSE -50) * InputVector[2])
       /\ ~FrameStep => (Azimuth' = Azimuth /\ Polar' = Polar)]_vars

\* The vector (1, 0) stored once has been applied by two frames in a row.
C10_Witness ==
  /\ variant = "script" /\ frames = 3
  /\ moveX = VecScale /\ moveY = 0
  /\ yaw = -100000

\* The change a frame update asks of the polar angle: +0.05 y in script.js,
\* -0.05 y in app.js
PolarPush == (IF variant = "script" THEN 50 ELSE -50) * InputVector[2]

\* C11: the clamp acts on the stored polar angle, so nothing winds up: a
\* frame update whose input would take the angle to or past a bound stores
\* exactly the bound (pi/2 - 0.1 or its negative), however many such
\* frames came before, and a frame update that finds the angle on a bound
\* with an opposite vertical input of magnitude m stores exactly the angle
\* 0.05 m inside that bound.
C11_NoWindUp ==
  [][(Joystick /\ FrameStep) =>
       /\ Polar + PolarPush >= PI \div 2 - 100000 => Polar' = PI \div 2 - 100000
       /\ Polar + PolarPush <= -(PI \div 2 - 100000) => Polar' = -(PI \div 2 - 100000)
       /\ (Polar = PI \div 2 - 100000 /\ PolarPush < 0) =>
            Polar' = PI \div 2 - 100000 + PolarPush
       /\ (Polar = -(PI \div 2 - 100000) /\ PolarPush > 0) =>
            Polar' = -(PI \div 2 - 100000) + PolarPush]_vars

\* The pitch was pushed onto the upper bound (30 frames of input (0, 1)
\* reach it at the 31st frame update) and one frame of input (0, -0.5) has
\* then stored exactly 0.025 inside the bound.
C11_Witness ==
  /\ variant = "script" /\ frames = 34
  /\ moveX = 0 /\ moveY = -500
  /\ pitch = PI \div 2 - 100000 - 25000

(***************************************************************************)
(* Properties of main.js.                                                  *)
(***************************************************************************)
\* The timestamps ts are d milliseconds apart
Spaced(ts, d) == \A k \in 2..Len(ts) : ts[k] - ts[k - 1] = d

\* objs with every mesh.rotation.y set to 0
Unrotated(objs) == [i \in Bodies |-> [pivot |-> objs[i].pivot, mesh |-> 0]]

\* objs with the pivot of body i turned by shift
Turned(objs, i, shift) == [objs EXCEPT ![i].pivot = @ + shift]

\* The turns given to a parent's pivot, in micro-radians
ParentShifts == { 1000, 500000, PI }

\* The difference of two positions
Minus(p, q) == << p[1] - q[1], p[2] - q[2], p[3] - q[3] >>

\* C3: after N >= 2 frame callbacks whose timestamps are d apart, every
\* body's orbit angle is N * orbitSpeed * d * 60 (d in seconds), counted
\* from the angle 0 of startup.
C3_AngleAfterNFrames ==
  variant = "main" =>
    \A d \in FrameDeltas :
      (Len(frameTimes) >= 2 /\ Spaced(frameTimes, d)) =>
        \A b \in Bodies :
          orbitObjects[b].pivot = Advance(PLANETS[b].orbitSpeed, Len(frameTimes) * d)

\* C4: no body's world position depends on the self-rotation angles: it is
\* what it would be with every mesh.rotation.y at 0, as in a run whose
\* rotationSpeed values are all 0.
C4_SelfRotationCosmetic ==
  variant = "main" =>
    \A b \in Bodies :
      MeshWorldPosition(b, orbitObjects) = MeshWorldPosition(b, Unrotated(orbitObjects))

\* C5: with a satellite's own orbit angle held fixed, turning its parent
\* planet's pivot moves the satellite's world position, and the satellite
\* is at its configured distance from the planet's world position, within
\* 0.1 per cent.
C5_SatelliteFollowsParent ==
  variant = "main" =>
    \A b \in Bodies :
      PLANETS[b].parent # 0 =>
        /\ \A shift \in ParentShifts :
             MeshWorldPosition(b, Turned(orbitObjects, PLANETS[b].parent, shift))
               # MeshWorldPosition(b, orbitObjects)
        /\ Abs(Norm2(Minus(MeshWorldPosition(b, orbitObjects),
                           MeshWorldPosition(PLANETS[b].parent, orbitObjects)))
               - PLANETS[b].distance * PLANETS[b].distance)
             <= (PLANETS[b].distance * PLANETS[b].distance) \div 500

\* The Moon and the Earth have both moved along their orbits.
C5_Witness ==
  /\ variant = "main" /\ frames >= 2
  /\ orbitObjects[4].pivot > 0 /\ orbitObjects[3].pivot > 0

\* C7: every body's orbit angle and self-rotation angle is a function of
\* the latest frame timestamp T alone, speed * 60 * T / 1000, whatever the
\* number and the spacing of the callbacks before it; two runs with the
\* same latest timestamp therefore agree on every angle.
C7_RefreshRateIndependent ==
  variant = "main" =>
    \A b \in Bodies :
      /\ orbitObjects[b].pivot = (PLANETS[b].orbitSpeed * 60 * previousTime) \div 1000
      /\ orbitObjects[b].mesh = (PLANETS[b].rotationSpeed * 60 * previousTime) \div 1000

\* The timestamp 32 reached in three callbacks (16, 24, 32); two callbacks
\* (16, 32) reach it too.
C7_Witness ==
  variant = "main" /\ frameTimes = <<16, 24, 32>>

=============================================================================
